---------------------------- MODULE Spec2Model ----------------------------
(***************************************************************************)
(* Model of src/streamlit_app.py: the Streamlit chat front-end of the      *)
(* buffet sales report.  The script is re-run from top to bottom on every  *)
(* widget event; st.session_state (chat_history, sales_summary_displayed)  *)
(* survives between runs.  The router (categorize_task and                 *)
(* handle_general_questions) is a function of the user text, of the agents *)
(* configured by the current run, and of what the Gemini model and the     *)
(* BigQuery client answer.                                                 *)
(*                                                                         *)
(* Python strings are TLA+ strings; TLC evaluates Len, SubSeq and \o on    *)
(* them character by character.                                            *)
(***************************************************************************)
EXTENDS Integers, Sequences, FiniteSets, TLC

VARIABLES
    gemini_api_key,            \* st.text_input value of the sidebar (line 52)
    page,                      \* st.selectbox value of the sidebar (line 53)
    session_keys,              \* the keys st.session_state holds
    chat_history,              \* st.session_state.chat_history: <<role, message>> tuples
    sales_summary_displayed,   \* st.session_state.sales_summary_displayed
    chat_input_shown,          \* the last script run rendered st.chat_input (line 441)
    summary_queries,           \* how often display_sales_summary ran its query this session
    run_log,                   \* logging.error lines written by the last script run
    uncaught,                  \* exception that ended the last script run, or "none"
    args,                      \* router harness: the arguments of one categorize_task call
    ret                        \* router harness: the outcome of that call, or Pending

vars == <<gemini_api_key, page, session_keys, chat_history, sales_summary_displayed,
          chat_input_shown, summary_queries, run_log, uncaught, args, ret>>

sessionVars == <<gemini_api_key, page, session_keys, chat_history, sales_summary_displayed,
                 chat_input_shown, summary_queries, run_log, uncaught>>

-----------------------------------------------------------------------------
(* Python str methods used by the script *)

\* str.lower() on one ASCII character
LowerChar(c) ==
    CASE c = "A" -> "a" [] c = "B" -> "b" [] c = "C" -> "c" [] c = "D" -> "d"
      [] c = "E" -> "e" [] c = "F" -> "f" [] c = "G" -> "g" [] c = "H" -> "h"
      [] c = "I" -> "i" [] c = "J" -> "j" [] c = "K" -> "k" [] c = "L" -> "l"
      [] c = "M" -> "m" [] c = "N" -> "n" [] c = "O" -> "o" [] c = "P" -> "p"
      [] c = "Q" -> "q" [] c = "R" -> "r" [] c = "S" -> "s" [] c = "T" -> "t"
      [] c = "U" -> "u" [] c = "V" -> "v" [] c = "W" -> "w" [] c = "X" -> "x"
      [] c = "Y" -> "y" [] c = "Z" -> "z" [] OTHER -> c

\* str.lower()
RECURSIVE Lower(_)
Lower(s) ==
    IF s = "" THEN ""
    ELSE LowerChar(SubSeq(s, 1, 1)) \o Lower(SubSeq(s, 2, Len(s)))

\* `sub in s` on strings
Contains(s, sub) ==
    \E i \in 1..(Len(s) - Len(sub) + 1) : SubSeq(s, i, i + Len(sub) - 1) = sub

IsSpace(c) == c \in {" ", "\n", "\t", "\r"}

\* str.lstrip() / str.rstrip() / str.strip()
RECURSIVE LStrip(_)
LStrip(s) ==
    IF s = "" THEN ""
    ELSE IF IsSpace(SubSeq(s, 1, 1)) THEN LStrip(SubSeq(s, 2, Len(s))) ELSE s

RECURSIVE RStrip(_)
RStrip(s) ==
    IF s = "" THEN ""
    ELSE IF IsSpace(SubSeq(s, Len(s), Len(s))) THEN RStrip(SubSeq(s, 1, Len(s) - 1)) ELSE s

Strip(s) == RStrip(LStrip(s))

\* sep.join(xs) for a sequence of strings
RECURSIVE Join(_, _)
Join(sep, xs) ==
    IF xs = <<>> THEN ""
    ELSE IF Len(xs) = 1 THEN xs[1]
    ELSE xs[1] \o sep \o Join(sep, Tail(xs))

-----------------------------------------------------------------------------
(* Warehouse rows.  A row is an insertion-ordered mapping column -> value: *)
(* a sequence of cells.  A value is a string or a number; f"{value}" and   *)
(* str.format render it with str().                                        *)

StrCell(k, s) == [key |-> k, type |-> "str", s |-> s, n |-> 0]
IntCell(k, n) == [key |-> k, type |-> "int", s |-> "", n |-> n]

\* str(value)
Str(cell) == IF cell.type = "int" THEN ToString(cell.n) ELSE cell.s

Keys(row) == {row[i].key : i \in DOMAIN row}

\* row[key]; the caller checks key \in Keys(row) (a KeyError otherwise)
Get(row, k) == Str(row[CHOOSE i \in DOMAIN row : row[i].key = k])

\* ", ".join(f"{key}: {value}" for key, value in row.items())
RenderRow(row) == Join(", ", [i \in DOMAIN row |-> row[i].key \o ": " \o Str(row[i])])

\* "\n".join(<RenderRow(row)> for row in result_dict)
RenderRows(rows) == Join("\n", [i \in DOMAIN rows |-> RenderRow(rows[i])])

-----------------------------------------------------------------------------
(* Response templates.  A template is the sequence of its literal pieces   *)
(* and its {placeholders}, in order.                                       *)

Lit(s) == [lit |-> s, field |-> ""]
Field(f) == [lit |-> "", field |-> f]

\* The keyword arguments of response_template.format(result=..., **result_dict[0])
\* are well formed unless the first row has a column named result
\* (TypeError: got multiple values for keyword argument 'result').
KwargsClash(row) == "result" \in Keys(row)

\* Every placeholder of the template is a keyword argument (KeyError otherwise).
FieldsBound(template, row) ==
    \A i \in DOMAIN template :
        template[i].field # "" => template[i].field \in Keys(row) \cup {"result"}

\* The text str.format produces when the arguments are well formed.
RECURSIVE Substitute(_, _, _)
Substitute(template, result, row) ==
    IF template = <<>> THEN ""
    ELSE LET part == Head(template)
             text == IF part.field = "" THEN part.lit
                     ELSE IF part.field = "result" THEN result
                     ELSE Get(row, part.field)
         IN  text \o Substitute(Tail(template), result, row)

\* response_template.format(result=result, **row): the text, or the exception
Format(template, result, row) ==
    IF KwargsClash(row) THEN [ok |-> FALSE, text |-> "TypeError"]
    ELSE IF ~FieldsBound(template, row) THEN [ok |-> FALSE, text |-> "KeyError"]
    ELSE [ok |-> TRUE, text |-> Substitute(template, result, row)]

-----------------------------------------------------------------------------
(* Query Guide.  Each entry is a canonical question, the SQL it runs (the  *)
(* SQL text is opaque to the script: it is named here by a label) and the  *)
(* response template.  A Python dict iterates in insertion order, so the   *)
(* guide is a sequence.                                                    *)

Entry(q, sql, t) == [question |-> q, query |-> sql, response_template |-> t]

\* The first assignment of query_guide (lines 89-108).
query_guide_first ==
    << Entry("Which branch had the highest sales in February?",
             "SQL highest sales in February",
             << Lit("The branch with the highest sales in February is "),
                Field("Branch_Name"), Lit(" (ID: "), Field("Branch_ID"),
                Lit(") with total sales of "), Field("Sales"), Lit(" baht.") >>) >>

\* The second assignment of query_guide (lines 234-369).
query_guide_second ==
    << Entry("Percentage growth comparison for this year vs. last year",
             "SQL growth by year 2024",
             << Lit("Percentage growth comparison for 2024:\n"), Field("result") >>),
       Entry("What is the % growth for each branch?",
             "SQL growth by branch 2024-02",
             << Lit("Here is the percentage growth for each branch in February 2024:\n"),
                Field("result") >>),
       Entry("Customer count changes this month",
             "SQL customer count change 2024-02",
             << Lit("Here is the customer count change for February 2024:\n"),
                Field("result") >>),
       Entry("How much has the customer count increased this month?",
             "SQL daily sales 2024-02",
             << Lit("Customer count for February 2024 has increased as follows:\n"),
                Field("result") >>),
       Entry("What are today's sales for this branch?",
             "SQL sales on 2024-02-29",
             << Lit("Today's sales for February 29, 2024, are:\n"), Field("result") >>),
       Entry("End-of-month sales target overview",
             "SQL sales versus target 2024-02",
             << Lit("End-of-month sales target overview for February 2024:\n"),
                Field("result") >>),
       Entry("Will the overall sales reach the set target by the end of this month?",
             "SQL sales versus last month 2024-02",
             << Lit("Sales progress for February 2024:\n"), Field("result") >>),
       Entry("Which branch is currently the furthest from its target?",
             "SQL sales versus target 2024-02",
             << Lit("The branch furthest from its target in February 2024 is "),
                Field("Branch_Name"), Lit(" (ID: "), Field("Branch_ID"),
                Lit(") with actual sales of "), Field("Actual_Sales"),
                Lit(" baht, a target of "), Field("Target_Sales"),
                Lit(" baht, and a difference of "), Field("Diff"), Lit(" baht.") >>) >>

\* The module-level name query_guide when categorize_task runs.  The function
\* is only called from display_chat_page (line 446), reached at line 487, after
\* both assignments have executed: the name holds the second dict, which
\* replaced the first one whole.
query_guide == query_guide_second

\* fallback_responses (lines 384-390).  The source's U+2019 apostrophe and
\* U+2013 dash are written ' and - here.
fallback_responses ==
    << "Shabu is love, shabu is life! Let us know how we can make your dining experience better.",
       "Did you know our secret broth recipe has been passed down for generations?",
       "You'll love our exclusive sauces! What else would you like to know?",
       "Bubble tea and shabu - a match made in heaven. Come visit us soon!",
       "Our 299 THB buffet is waiting for you! What other questions do you have?" >>

\* The names the script's import statements bind (lines 1-6).
imported_names == {"st", "genai", "bigquery", "logging", "json", "os"}

\* query_related_keywords (line 166, and again inline at line 448)
query_related_keywords == <<"sales", "target", "growth", "customer", "branch">>

-----------------------------------------------------------------------------
(* Outcomes of a router call.  A call returns a value or raises; on the   *)
(* way it runs SQL on the BigQuery client (queries), prompts the Gemini    *)
(* model (prompts) and writes to error.log (logged).                       *)
(*   by      : the agent whose branch of the code produced the outcome     *)
(*   matched : the canonical question of the query_guide entry taken, or ""*)
(* What the model answers is m = [raises, text] (generate_content or       *)
(* response.text raises, or text is response.text); what the warehouse     *)
(* answers is w = [raises, rows] (client.query / query_job.result() raises,*)
(* or rows are the rows of the result).                                    *)

Out(outcome, value, by, matched, queries, prompts, logged) ==
    [outcome |-> outcome, value |-> value, by |-> by, matched |-> matched,
     queries |-> queries, prompts |-> prompts, logged |-> logged]

NotConfigured01 == "Agent 01 is not configured. Please provide a valid Gemini API Key."
NotConfigured02 == "Agent 02 is not configured. Please provide a valid Gemini API Key."
NoResults == "No results found for your query."
Apology == "Sorry, I couldn't process your query. Please try again later."

\* random.choice(xs), lines 156 and 159: the name random is looked up in the
\* module's globals when the line runs; unbound, the lookup raises NameError.
random_choice(xs) ==
    IF "random" \in imported_names
    THEN {[ok |-> TRUE, v |-> xs[i]] : i \in DOMAIN xs}
    ELSE {[ok |-> FALSE, v |-> "NameError"]}

\* handle_general_questions (lines 137-161): the set of its possible outcomes
handle_general_questions(user_input, agent_02, m) ==
    IF agent_02
    THEN LET \* the try block, lines 140-156
             body == IF m.raises THEN {[ok |-> FALSE, v |-> "ModelError"]}
                     ELSE IF Strip(m.text) # "" THEN {[ok |-> TRUE, v |-> Strip(m.text)]}
                     ELSE random_choice(fallback_responses)
             \* the except clause, lines 157-159
             handler(e) ==
                 LET logged == <<"Error in Agent 02 response generation: " \o e>>
                 IN  { IF h.ok
                       THEN Out("return", h.v, "agent_02", "", <<>>, <<user_input>>, logged)
                       ELSE Out("raise", h.v, "agent_02", "", <<>>, <<user_input>>, logged)
                       : h \in random_choice(fallback_responses) }
         IN  UNION { IF b.ok
                     THEN {Out("return", b.v, "agent_02", "", <<>>, <<user_input>>, <<>>)}
                     ELSE handler(b.v)
                     : b \in body }
    ELSE {Out("return", NotConfigured02, "agent_02", "", <<>>, <<>>, <<>>)}

\* Lines 175-192 without the test of line 184: result_dict[0] of an empty
\* result raises IndexError
CatalogReply_NoEmptyCheck(entry, w) ==
    IF w.raises
    THEN Out("raise", "WarehouseError", "agent_01", entry.question, <<entry.query>>, <<>>, <<>>)
    ELSE IF w.rows = <<>>
    THEN Out("raise", "IndexError", "agent_01", entry.question, <<entry.query>>, <<>>, <<>>)
    ELSE LET f == Format(entry.response_template, RenderRows(w.rows), w.rows[1])
         IN  Out(IF f.ok THEN "return" ELSE "raise", f.text, "agent_01",
                 entry.question, <<entry.query>>, <<>>, <<>>)

\* Lines 175-192: the reply of the matched query_guide entry
CatalogReply(entry, w) ==
    IF w.raises
    THEN Out("raise", "WarehouseError", "agent_01", entry.question, <<entry.query>>, <<>>, <<>>)
    ELSE IF w.rows # <<>>
    THEN LET f == Format(entry.response_template, RenderRows(w.rows), w.rows[1])
         IN  Out(IF f.ok THEN "return" ELSE "raise", f.text, "agent_01",
                 entry.question, <<entry.query>>, <<>>, <<>>)
    ELSE Out("return", NoResults, "agent_01", entry.question, <<entry.query>>, <<>>, <<>>)

\* Lines 194-223: the model writes the SQL, which is run as it is
DynamicReply(user_input, m, w) ==
    IF m.raises
    THEN Out("raise", "ModelError", "agent_01", "", <<>>, <<user_input>>, <<>>)
    ELSE LET dynamic_query == Strip(m.text)
         IN  IF w.raises
             THEN Out("raise", "WarehouseError", "agent_01", "", <<dynamic_query>>,
                      <<user_input>>, <<>>)
             ELSE IF w.rows # <<>>
             THEN Out("return", RenderRows(w.rows), "agent_01", "", <<dynamic_query>>,
                      <<user_input>>, <<>>)
             ELSE Out("return", NoResults, "agent_01", "", <<dynamic_query>>,
                      <<user_input>>, <<>>)

\* Line 174 comparing the texts as typed: question in user_input
Matches_CaseSensitive(entry, user_input) == Contains(user_input, entry.question)

\* Line 174: question.lower() in user_input.lower()
Matches(entry, user_input) == Contains(Lower(user_input), Lower(entry.question))

\* The for loop of lines 173-192 from entry i on, then lines 194-223
RECURSIVE ScanGuide(_, _, _, _, _)
ScanGuide(guide, i, user_input, m, w) ==
    IF i > Len(guide) THEN DynamicReply(user_input, m, w)
    ELSE IF Matches(guide[i], user_input) THEN CatalogReply(guide[i], w)
    ELSE ScanGuide(guide, i + 1, user_input, m, w)

\* The try block of lines 171-223
TryQuery(user_input, m, w) == ScanGuide(query_guide, 1, user_input, m, w)

\* Line 169 testing the keyword list instead of the text: any(query_related_keywords)
IsQueryRelated_AnyKeyword(user_input) ==
    \E k \in DOMAIN query_related_keywords : query_related_keywords[k] # ""

\* Lines 169 and 447-449:
\* any(keyword in user_input.lower() for keyword in query_related_keywords)
IsQueryRelated(user_input) ==
    \E k \in DOMAIN query_related_keywords :
        Contains(Lower(user_input), query_related_keywords[k])

\* Lines 171-227 without the except clause: the exception leaves the function
CatchAll_Reraise(b) == b

\* The except clause of lines 225-227 around the try block
CatchAll(b) ==
    IF b.outcome = "raise"
    THEN Out("return", Apology, b.by, b.matched, b.queries, b.prompts,
             <<"Error in Agent 01 task categorization: " \o b.value>>)
    ELSE b

\* categorize_task (lines 164-232): the set of its possible outcomes
categorize_task(user_input, agent_01, agent_02, m, w) ==
    IF IsQueryRelated(user_input)
    THEN IF agent_01
         THEN {CatchAll(TryQuery(user_input, m, w))}
         ELSE {Out("return", NotConfigured01, "agent_01", "", <<>>, <<>>, <<>>)}
    ELSE handle_general_questions(user_input, agent_02, m)

\* display_sales_summary (lines 111-134): the summary text, or None
SummaryColumns == {"Branch_ID", "Branch_Name", "Total_Daily_Sales"}

SummaryLine(row) ==
    "Branch " \o Get(row, "Branch_ID") \o " " \o Get(row, "Branch_Name")
        \o " total sale is " \o Get(row, "Total_Daily_Sales") \o " baht"

display_sales_summary(w) ==
    IF w.raises
    THEN [none |-> TRUE, text |-> "", logged |-> <<"Error fetching sales summary: WarehouseError">>]
    ELSE IF \E i \in DOMAIN w.rows : ~(SummaryColumns \subseteq Keys(w.rows[i]))
    THEN [none |-> TRUE, text |-> "", logged |-> <<"Error fetching sales summary: KeyError">>]
    ELSE [none |-> FALSE, logged |-> <<>>,
          text |-> Join("\n", [i \in DOMAIN w.rows |-> SummaryLine(w.rows[i])])]

-----------------------------------------------------------------------------
(* Inputs: what the user types and what the two services answer.           *)

MaxHistory == 3     \* st.chat_input takes a message while chat_history is shorter
MaxRows == 2        \* most rows a warehouse result of the router harness holds

FebRow ==
    << StrCell("Branch_ID", "B01"), StrCell("Branch_Name", "Silom"),
       IntCell("Sales", 150000) >>
TargetRow ==
    << StrCell("Branch_ID", "B03"), StrCell("Branch_Name", "Asok"),
       IntCell("Actual_Sales", 90000), IntCell("Target_Sales", 120000),
       IntCell("Diff", -30000) >>
DailyRow ==
    << StrCell("Branch_ID", "B02"), StrCell("Branch_Name", "Ari"),
       IntCell("Total_Daily_Sales", 4200) >>
CountRow == << IntCell("result", 5) >>

Raises == [raises |-> TRUE, rows |-> <<>>]
Rows(rs) == [raises |-> FALSE, rows |-> rs]

SampleRows == {FebRow, TargetRow, CountRow}

RECURSIVE RowSeqs(_)
RowSeqs(n) ==
    IF n = 0 THEN {<<>>}
    ELSE LET shorter == RowSeqs(n - 1)
         IN  shorter \cup {Append(rs, r) : rs \in {x \in shorter : Len(x) = n - 1},
                                           r \in SampleRows}

\* warehouse answers of the router harness
Warehouse == {Raises} \cup {Rows(rs) : rs \in RowSeqs(MaxRows)}

\* warehouse answers of the session
SessionWarehouse == {Raises, Rows(<<>>), Rows(<<TargetRow>>), Rows(<<DailyRow>>)}

\* model answers: an error, a blank text, a text with surrounding blanks
ModelRaises == [raises |-> TRUE, text |-> ""]
ModelAnswers ==
    { ModelRaises,
      [raises |-> FALSE, text |-> ""],
      [raises |-> FALSE, text |-> " \n"],
      [raises |-> FALSE, text |-> " SELECT Branch_ID FROM f2 \n"] }

FebQuestion == query_guide_first[1].question

GeneralTexts == {"hello, what's your opening hours?", "HELLO", "Is the broth spicy"}

KeywordTexts ==
    {"Do you have other branches?", "Show SALES per month", "TARGET", "Customer Growth"}

\* every canonical question, as written, in lower case, and inside a sentence
QuestionTexts ==
    UNION { {e.question, Lower(e.question), "Hi! " \o e.question \o " Please tell me"}
            : e \in {query_guide_second[i] : i \in DOMAIN query_guide_second} }

\* texts holding two canonical questions, the later entry of the guide first
TwoQuestionTexts ==
    { query_guide_second[j].question \o " " \o query_guide_second[i].question
      : i \in {1, 2, 6}, j \in {3, 6, 8} }

RouterTexts ==
    GeneralTexts \cup KeywordTexts \cup QuestionTexts \cup TwoQuestionTexts
        \cup {FebQuestion, FebQuestion \o " Please tell me",
              "which BRANCH had the highest sales in february?"}

SessionTexts ==
    {"hello, what's your opening hours?", "Do you have other branches?",
     "which branch is currently the furthest from its target?"}

ApiKeys == {"", "AIza-1", "AIza-2"}
Pages == {"Chat", "Dashboard"}

\* <<agent_01, agent_02>> as lines 56-64 can leave them: both None, agent_01
\* alone (the constructor of line 64 raised), or both set
Agents == {<<FALSE, FALSE>>, <<TRUE, FALSE>>, <<TRUE, TRUE>>}

\* Lines 59-70: how far the try block of the Gemini set-up gets
GenaiOutcomes == {"ok", "raised before agent_01", "raised at agent_02"}

-----------------------------------------------------------------------------
(* The script run.                                                         *)

\* Lines 82-83 without the test: chat_history = [] on every run
session_chat_history_Reset == <<>>

\* Lines 82-83: chat_history after the initialisation of the session state
session_chat_history ==
    IF "chat_history" \in session_keys THEN chat_history ELSE <<>>

\* Lines 85-86 without the test: sales_summary_displayed = False on every run
session_summary_displayed_Reset == FALSE

\* Lines 85-86: sales_summary_displayed after the initialisation
session_summary_displayed ==
    IF "sales_summary_displayed" \in session_keys THEN sales_summary_displayed ELSE FALSE

\* Line 423 without the test of the flag
SummaryDue_NoFlag(key) == key # ""

\* Line 423: the summary is due
SummaryDue(key) == key # "" /\ ~session_summary_displayed

\* Lines 447-449: the role the reply is tagged with
AgentRole(user_input) == IF IsQueryRelated(user_input) THEN "agent_01" ELSE "agent_02"

\* display_chat_page (lines 393-451) for the run's widget values
display_chat_page(key, user_input, agent_01, agent_02, ws, m, w, log0) ==
    LET show == SummaryDue(key)                                         \* line 423
        s == display_sales_summary(ws)                                  \* line 424
        turn == IF ~s.none /\ s.text # ""                               \* line 425
                THEN <<"assistant", "### Daily Sales Summary:\n\n" \o s.text>>
                ELSE <<"assistant", "No sales summary available at the moment.">>
        h1 == IF show THEN Append(session_chat_history, turn) ELSE session_chat_history
        log1 == IF show THEN log0 \o s.logged ELSE log0
    IN  /\ sales_summary_displayed' = (session_summary_displayed \/ show)  \* line 434
        /\ summary_queries' = summary_queries + (IF show THEN 1 ELSE 0)
        /\ chat_input_shown' = TRUE                                     \* line 441
        /\ IF user_input = ""
           THEN /\ chat_history' = h1
                /\ run_log' = log1
                /\ uncaught' = "none"
           ELSE \E o \in categorize_task(user_input, agent_01, agent_02, m, w) :
                /\ chat_history' =
                       IF o.outcome = "return"
                       THEN h1 \o << <<"user", user_input>>,
                                     <<AgentRole(user_input), o.value>> >>
                       ELSE Append(h1, <<"user", user_input>>)
                /\ run_log' = log1 \o o.logged
                /\ uncaught' = IF o.outcome = "return" THEN "none" ELSE o.value

\* One run of the script, top to bottom, with the widget values key and pg and
\* the chat input user_input ("" when st.chat_input returns None).
ScriptRun(key, pg, user_input, genai, bq_ok, ws, m, w) ==
    LET agent_01 == key # "" /\ genai \in {"ok", "raised at agent_02"}    \* lines 59-64
        agent_02 == key # "" /\ genai = "ok"
        log0 == IF key # "" /\ genai # "ok" THEN <<"Gemini API Error">> ELSE <<>>
    IN  /\ gemini_api_key' = key
        /\ page' = pg
        /\ UNCHANGED <<args, ret>>
        /\ IF ~bq_ok                                                      \* lines 73-79
           THEN /\ run_log' = Append(log0, "BigQuery Setup Error")
                /\ chat_input_shown' = FALSE
                /\ uncaught' = "none"
                /\ UNCHANGED <<session_keys, chat_history, sales_summary_displayed,
                               summary_queries>>
           ELSE /\ session_keys' = {"chat_history", "sales_summary_displayed"}
                /\ IF pg = "Chat"                                         \* lines 486-489
                   THEN display_chat_page(key, user_input, agent_01, agent_02,
                                          ws, m, w, log0)
                   ELSE /\ run_log' = log0
                        /\ chat_input_shown' = FALSE
                        /\ uncaught' = "none"
                        /\ chat_history' = session_chat_history
                        /\ sales_summary_displayed' = session_summary_displayed
                        /\ UNCHANGED summary_queries

\* The services' answers to one run.  Each service answers only the calls the
\* run makes: the Gemini set-up runs when a key is entered (line 59), the
\* summary query when line 423 lets it, the router when there is a message.
Run(key, pg, user_input) ==
    \E genai \in IF key = "" THEN {"ok"} ELSE GenaiOutcomes,
       bq_ok \in BOOLEAN,
       ws \in IF SummaryDue(key) THEN SessionWarehouse ELSE {Raises},
       m \in IF user_input = "" THEN {ModelRaises} ELSE ModelAnswers,
       w \in IF user_input = "" THEN {Raises} ELSE SessionWarehouse :
        ScriptRun(key, pg, user_input, genai, bq_ok, ws, m, w)

\* The page is loaded or re-run with the widgets as they are.
Rerun == Run(gemini_api_key, page, "")

\* The user enters, changes or clears the API key in the sidebar.
EnterKey == \E k \in ApiKeys \ {gemini_api_key} : Run(k, page, "")

\* The user picks the other page.
SelectPage == \E p \in Pages \ {page} : Run(gemini_api_key, p, "")

\* The user submits a message in the chat input the last run rendered.
SendMessage ==
    /\ chat_input_shown
    /\ Len(chat_history) < MaxHistory
    /\ \E text \in SessionTexts : Run(gemini_api_key, page, text)

NoArgs == [fn |-> "", text |-> "", agent_01 |-> FALSE, agent_02 |-> FALSE,
           m |-> ModelRaises, w |-> Raises]

\* A new session, before the first run of the script: st.session_state is
\* empty (chat_history and sales_summary_displayed stand for no value yet).
Init ==
    /\ gemini_api_key = ""
    /\ page = "Chat"
    /\ session_keys = {}
    /\ chat_history = <<>>
    /\ sales_summary_displayed = FALSE
    /\ chat_input_shown = FALSE
    /\ summary_queries = 0
    /\ run_log = <<>>
    /\ uncaught = "none"
    /\ args = NoArgs
    /\ ret = {}

Next == Rerun \/ EnterKey \/ SelectPage \/ SendMessage

Spec == Init /\ [][Next]_vars

-----------------------------------------------------------------------------
(* The router on its own: one call of categorize_task on any arguments.    *)

CategorizeArgs ==
    { [fn |-> "categorize_task", text |-> t, agent_01 |-> a[1], agent_02 |-> a[2],
       m |-> m, w |-> w]
      : t \in RouterTexts, a \in Agents, m \in ModelAnswers, w \in Warehouse }

\* handle_general_questions makes no warehouse call
GeneralArgs ==
    { [fn |-> "handle_general_questions", text |-> t, agent_01 |-> a[1],
       agent_02 |-> a[2], m |-> m, w |-> Raises]
      : t \in RouterTexts, a \in Agents, m \in ModelAnswers }

RouterInit ==
    /\ gemini_api_key = ""
    /\ page = "Chat"
    /\ session_keys = {}
    /\ chat_history = <<>>
    /\ sales_summary_displayed = FALSE
    /\ chat_input_shown = FALSE
    /\ summary_queries = 0
    /\ run_log = <<>>
    /\ uncaught = "none"
    /\ args \in CategorizeArgs \cup GeneralArgs
    /\ ret = {}

CallCategorize ==
    /\ ret = {}
    /\ args.fn = "categorize_task"
    /\ \E o \in categorize_task(args.text, args.agent_01, args.agent_02, args.m, args.w) :
           ret' = {o}
    /\ UNCHANGED <<args, sessionVars>>

CallGeneral ==
    /\ ret = {}
    /\ args.fn = "handle_general_questions"
    /\ \E o \in handle_general_questions(args.text, args.agent_02, args.m) : ret' = {o}
    /\ UNCHANGED <<args, sessionVars>>

RouterNext == CallCategorize \/ CallGeneral

RouterSpec == RouterInit /\ [][RouterNext]_vars

-----------------------------------------------------------------------------
(* Properties of the router, checked under RouterSpec.                     *)

Range(f) == {f[i] : i \in DOMAIN f}

FiveKeywords == {"sales", "target", "growth", "customer", "branch"}

HasKeyword(text) == \E k \in FiveKeywords : Contains(Lower(text), k)

\* C1: handle_general_questions, with agent_02 configured and a model call
\* that raises, returns a member of fallback_responses for every user text.
C1_FallbackOnModelError ==
    \A o \in ret :
        (args.fn = "handle_general_questions" /\ args.agent_02 /\ args.m.raises)
            => (o.outcome = "return" /\ o.value \in Range(fallback_responses))

\* C2: with agent_01 configured, a text holding the February question and a
\* warehouse result whose first row has Branch_ID, Branch_Name and Sales,
\* categorize_task returns the February sentence filled from the first row.
C2_FebruaryAnswer ==
    \A o \in ret :
        ( /\ args.fn = "categorize_task"
          /\ args.agent_01
          /\ Contains(Lower(args.text),
                      "which branch had the highest sales in february?")
          /\ ~args.w.raises
          /\ args.w.rows # <<>>
          /\ {"Branch_ID", "Branch_Name", "Sales"} \subseteq Keys(args.w.rows[1]) )
        => ( /\ o.outcome = "return"
             /\ o.value = "The branch with the highest sales in February is "
                            \o Get(args.w.rows[1], "Branch_Name") \o " (ID: "
                            \o Get(args.w.rows[1], "Branch_ID")
                            \o ") with total sales of "
                            \o Get(args.w.rows[1], "Sales") \o " baht." )

\* The entries of the guide whose canonical question the text holds
Hits(text) ==
    {i \in DOMAIN query_guide : Contains(Lower(text), Lower(query_guide[i].question))}

CatalogSql == {query_guide[i].query : i \in DOMAIN query_guide}

\* C3: on the data-question path with agent_01 configured, the entry whose SQL
\* runs is the first entry of the guide, in its order, whose canonical question
\* is a case-insensitive substring of the text; no catalog SQL runs when no
\* entry matches.
C3_FirstMatchWins ==
    \A o \in ret :
        (args.fn = "categorize_task" /\ args.agent_01 /\ HasKeyword(args.text))
        => IF Hits(args.text) = {}
           THEN o.matched = "" /\ \A k \in DOMAIN o.queries : o.queries[k] \notin CatalogSql
           ELSE LET first == CHOOSE i \in Hits(args.text) :
                                 \A j \in Hits(args.text) : i <= j
                IN  /\ o.matched = query_guide[first].question
                    /\ o.queries = <<query_guide[first].query>>

\* C3 witness: a text holding two canonical questions, the later entry of the
\* guide written first, answered from the earlier entry.
C3_Witness ==
    \E o \in ret :
        /\ args.agent_01
        /\ Cardinality(Hits(args.text)) = 2
        /\ args.text = query_guide[6].question \o " " \o query_guide[2].question
        /\ o.matched = query_guide[2].question
        /\ o.outcome = "return"
        /\ o.value # "Sorry, I couldn't process your query. Please try again later."

\* C4: a text with none of the five keywords is handled by
\* handle_general_questions and runs no warehouse query, whatever the model
\* does and whether or not the agents are configured.
C4_GeneralRunsNoQuery ==
    \A o \in ret :
        (args.fn = "categorize_task" /\ ~HasKeyword(args.text))
            => (o.by = "agent_02" /\ o.queries = <<>>)

\* C4 witness: a general text answered by the model while the warehouse would
\* have returned rows.
C4_Witness ==
    \E o \in ret :
        /\ args.fn = "categorize_task"
        /\ args.text = "hello, what's your opening hours?"
        /\ args.agent_01 /\ args.agent_02
        /\ ~args.m.raises
        /\ ~args.w.raises /\ args.w.rows # <<>>
        /\ o.outcome = "return"
        /\ o.value = "SELECT Branch_ID FROM f2"

\* C6: when the warehouse returns zero rows to the router, on the catalog path
\* and on the generated-SQL path alike, categorize_task returns exactly
\* "No results found for your query.".
C6_ZeroRows ==
    \A o \in ret :
        ( /\ args.fn = "categorize_task"
          /\ o.queries # <<>>
          /\ ~args.w.raises
          /\ args.w.rows = <<>> )
        => (o.outcome = "return" /\ o.value = "No results found for your query.")

\* C6 witness: zero rows for the SQL the model wrote.
C6_Witness ==
    \E o \in ret :
        /\ args.fn = "categorize_task"
        /\ o.matched = ""
        /\ o.queries = <<"SELECT Branch_ID FROM f2">>
        /\ ~args.w.raises /\ args.w.rows = <<>>
        /\ o.value = "No results found for your query."

\* C7: on the data-question path with agent_01 configured, an exception of the
\* model call or of the warehouse execution (catalog SQL or generated SQL) is
\* caught in categorize_task, logged, and turned into the fixed apology.
C7_ExceptionsAbsorbed ==
    \A o \in ret :
        ( /\ args.fn = "categorize_task"
          /\ args.agent_01
          /\ HasKeyword(args.text)
          /\ \/ o.prompts # <<>> /\ args.m.raises
             \/ o.queries # <<>> /\ args.w.raises )
        => ( /\ o.outcome = "return"
             /\ o.value = "Sorry, I couldn't process your query. Please try again later."
             /\ Len(o.logged) = 1 )

\* C7 witness: the warehouse fails on the SQL of a matched entry.
C7_Witness ==
    \E o \in ret :
        /\ args.fn = "categorize_task"
        /\ args.agent_01
        /\ o.matched = query_guide[8].question
        /\ args.w.raises
        /\ o.outcome = "return"
        /\ o.logged = <<"Error in Agent 01 task categorization: WarehouseError">>

\* The placeholders of a template
Placeholders(template) ==
    {template[i].field : i \in {j \in DOMAIN template : template[j].field # ""}}

\* C11: on a catalog match with at least one row, when the entry's template
\* names a placeholder that is neither a column of the first row nor result,
\* categorize_task returns the generic rendering of the rows (newline-joined
\* rows of comma-joined "key: value" pairs).  Rows with a column named result
\* are left out: there format fails on its arguments before it reads the template.
C11_MissingFieldFallsBackToRows ==
    \A o \in ret :
        ( /\ args.fn = "categorize_task"
          /\ args.agent_01
          /\ o.matched # ""
          /\ ~args.w.raises
          /\ args.w.rows # <<>>
          /\ "result" \notin Keys(args.w.rows[1])
          /\ \E i \in DOMAIN query_guide :
                 /\ query_guide[i].question = o.matched
                 /\ ~(Placeholders(query_guide[i].response_template)
                          \subseteq Keys(args.w.rows[1]) \cup {"result"}) )
        => (o.outcome = "return" /\ o.value = RenderRows(args.w.rows))

-----------------------------------------------------------------------------
(* Properties of the session, checked under Spec.                          *)

IsPrefix(a, b) == Len(a) <= Len(b) /\ SubSeq(b, 1, Len(a)) = a

\* The positions of the daily-summary turns (role "assistant")
SummaryTurns(h) == {i \in DOMAIN h : h[i][1] = "assistant"}

RouterRoles == {"agent_01", "agent_02"}

\* C5: over any sequence of runs the daily-summary turn is appended at most
\* once; once sales_summary_displayed is true it stays true and the summary
\* query is not run again.
C5_SummaryOnce ==
    [][ /\ Cardinality(SummaryTurns(chat_history')) <= 1
        /\ summary_queries' <= 1
        /\ sales_summary_displayed
               => (sales_summary_displayed' /\ summary_queries' = summary_queries
                   /\ SummaryTurns(chat_history') = SummaryTurns(chat_history)) ]_vars

\* C5 witness: the summary was shown first; the key was then cleared, a message
\* sent, and another key entered on the Chat page.
C5_Witness ==
    /\ sales_summary_displayed
    /\ summary_queries = 1
    /\ gemini_api_key = "AIza-2"
    /\ page = "Chat" /\ chat_input_shown
    /\ Len(chat_history) >= 3
    /\ chat_history[1][1] = "assistant"
    /\ chat_history[3][2] = "Agent 02 is not configured. Please provide a valid Gemini API Key."

\* C8: chat_history only grows: every step leaves it unchanged or appends at
\* its end.
C8_AppendOnly == [][IsPrefix(chat_history, chat_history')]_vars

\* C8 witness: a history of two exchanges and the summary.
C8_Witness ==
    /\ Len(chat_history) = 5
    /\ SummaryTurns(chat_history) # {}

\* C9 as stated: no router reply precedes the daily-summary turn.
C9_SummaryFirstAgentTurn ==
    \A i \in SummaryTurns(chat_history) :
        \A j \in 1..(i - 1) : chat_history[j][1] \notin RouterRoles

\* C9 amended: the router replies that precede the daily-summary turn are
\* "not configured" replies, made before an API key was entered.
C9_OnlyUnconfiguredRepliesBefore ==
    \A i \in SummaryTurns(chat_history) :
        \A j \in 1..(i - 1) :
            chat_history[j][1] \in RouterRoles
                => chat_history[j][2] \in
                       {"Agent 01 is not configured. Please provide a valid Gemini API Key.",
                        "Agent 02 is not configured. Please provide a valid Gemini API Key."}

\* C9 witness: the summary after two exchanges without a key.
C9_Witness ==
    /\ Len(chat_history) = 5
    /\ chat_history[5][1] = "assistant"
    /\ chat_history[2][1] = "agent_01"
    /\ chat_history[4][1] = "agent_02"

\* C10: every user turn is followed, as the next turn, by the agent turn of its
\* reply, tagged agent_01 if the text holds a routing keyword and agent_02
\* otherwise.
C10_EveryMessageAnswered ==
    \A i \in DOMAIN chat_history :
        chat_history[i][1] = "user"
            => /\ i < Len(chat_history)
               /\ chat_history[i + 1][1] =
                      IF HasKeyword(chat_history[i][2]) THEN "agent_01" ELSE "agent_02"

=============================================================================
